---- MODULE Spec2Model ----
(***************************************************************************)
(* A model of BasicVAE (pl_bolts): construction from hparams, the shared   *)
(* ELBO step behind training_step / validation_step / test_step, and the   *)
(* epoch-end aggregation of the per-batch records.                         *)
(*                                                                         *)
(* Arithmetic is exact.  A scalar of the program is a vector of rationals  *)
(* over the basis (1, ln 2, ln 3, ln sqrt(2 pi)): the logarithms that      *)
(* binary_cross_entropy and Normal.log_prob produce on the modelled inputs *)
(* stay symbolic, so equalities between losses are decided exactly.        *)
(* float32 rounding is not modelled.                                       *)
(***************************************************************************)
EXTENDS Integers, Sequences, FiniteSets, TLC

(* ------------------------------ bounds -------------------------------- *)
\* largest number of samples in one batch
MaxBatch == 2
\* flattened pixels per image (channels * height * width)
NumPixels == 2
\* latent dimensions produced by the encoder stub
LatentDim == 2
\* number of states of the noise generator
NumSeeds == 3
\* largest number of batches in one pass over a loader
MaxOutputs == 2

\* LET v == e IN In(v), with e written and evaluated once
Let(e, In(_)) == In(e)

(* --------------------------- rational numbers ------------------------- *)
Abs(x) == IF x < 0 THEN -x ELSE x

RECURSIVE GCD(_, _)
GCD(a, b) == IF b = 0 THEN a ELSE GCD(b, a % b)

\* the fraction n/d in lowest terms with a positive denominator (d # 0)
Rat(n, d) ==
    IF d = 1 THEN <<n, 1>>
    ELSE LET s == IF d < 0 THEN -1 ELSE 1
             g == GCD(Abs(n), Abs(d))
         IN  <<(s * n) \div g, (s * d) \div g>>

RInt(n) == <<n, 1>>
RAdd(a, b) == Rat(a[1] * b[2] + b[1] * a[2], a[2] * b[2])
RNeg(a) == <<-a[1], a[2]>>
RSub(a, b) == RAdd(a, RNeg(b))
RMul(a, b) == Rat(a[1] * b[1], a[2] * b[2])
RDiv(a, b) == Rat(a[1] * b[2], a[2] * b[1])

(* ------------- scalars: rationals over (1, ln2, ln3, lnsqrt2pi) -------- *)
Scalar(q, l2, l3, lp) == <<q, l2, l3, lp>>
SZero == Scalar(RInt(0), RInt(0), RInt(0), RInt(0))
SRat(q) == Scalar(q, RInt(0), RInt(0), RInt(0))
SAdd(u, v) == <<RAdd(u[1], v[1]), RAdd(u[2], v[2]), RAdd(u[3], v[3]), RAdd(u[4], v[4])>>
SNeg(u) == <<RNeg(u[1]), RNeg(u[2]), RNeg(u[3]), RNeg(u[4])>>
SSub(u, v) == SAdd(u, SNeg(v))
\* a scalar times a rational, and divided by a rational
SScale(u, r) == <<RMul(u[1], r), RMul(u[2], r), RMul(u[3], r), RMul(u[4], r)>>
SDivR(u, r) == <<RDiv(u[1], r), RDiv(u[2], r), RDiv(u[3], r), RDiv(u[4], r)>>

\* ln n for n = 2^a * 3^b, as a scalar
RECURSIVE LogInt(_)
LogInt(n) ==
    CASE n = 1 -> SZero
      [] n > 1 /\ n % 2 = 0 -> SAdd(Scalar(RInt(0), RInt(1), RInt(0), RInt(0)), LogInt(n \div 2))
      [] n > 1 /\ n % 2 # 0 /\ n % 3 = 0 ->
            SAdd(Scalar(RInt(0), RInt(0), RInt(1), RInt(0)), LogInt(n \div 3))

\* torch.log of a positive rational
Log(r) == SSub(LogInt(r[1]), LogInt(r[2]))

RECURSIVE Pow2(_)
Pow2(k) == IF k = 0 THEN RInt(1)
           ELSE IF k > 0 THEN RMul(RInt(2), Pow2(k - 1))
           ELSE RDiv(Pow2(k + 1), RInt(2))

\* torch.exp of a scalar k * ln 2 (k an integer)
Exp(u) ==
    CASE u[1] = RInt(0) /\ u[3] = RInt(0) /\ u[4] = RInt(0) /\ u[2][2] = 1 -> Pow2(u[2][1])

(* ------------------------------ tensors -------------------------------- *)
\* a 1-D tensor of n elements and a 2-D tensor of n rows by m columns, stored
\* as (nested) sequences with every element computed once
Tensor1(n, Elem(_)) == LET t == [i \in 1..n |-> Elem(i)] IN SubSeq(t, 1, n)
Tensor2(n, m, Elem(_, _)) ==
    Tensor1(n, LAMBDA i : Tensor1(m, LAMBDA j : Elem(i, j)))

\* sum of a sequence of scalars
RECURSIVE SSum(_)
SSum(s) == IF s = <<>> THEN SZero ELSE SAdd(Head(s), SSum(Tail(s)))

\* Tensor.mean() of a 1-D tensor of scalars (non-empty)
Mean(s) == SDivR(SSum(s), RInt(Len(s)))

\* Tensor.sum(dim=-1) / Tensor.sum(dim=1) of a 2-D tensor: one scalar per row
SumRows(t) == Tensor1(Len(t), LAMBDA i : SSum(t[i]))

RECURSIVE Prod(_)
Prod(s) == IF s = <<>> THEN 1 ELSE Head(s) * Prod(Tail(s))

\* x.size(0)
Size0(x) == x.shape[1]

\* x.view(n, -1): a new tensor object over the same storage
View(x, n) == [shape |-> <<n, Prod(x.shape) \div n>>, data |-> x.data]

(* ------------------------ encoder and decoder -------------------------- *)
\* Encoder weights: w scales the mean, lv sets the log-variance (in units of
\* 2 ln 2, so that the standard deviation is a power of two).
EncoderParams == {[w |-> 0, lv |-> 0], [w |-> 1, lv |-> 0],
                  [w |-> 0, lv |-> 1], [w |-> 1, lv |-> -1]}
DecoderParams == {0, 1}

RECURSIVE RSum(_)
RSum(s) == IF s = <<>> THEN RInt(0) ELSE RAdd(Head(s), RSum(Tail(s)))

\* Encoder.forward: images [B, C, H, W] -> (z_mu, z_log_var), each [B, LatentDim].
\* A deterministic function of the weights and of each image.
Encoder(theta, x) ==
    LET B == Size0(x)
        z_mu == Tensor2(B, LatentDim, LAMBDA i, j :
                    RMul(RInt(theta.w), RAdd(RSum(x.data[i]), RInt(j - 1))))
        z_log_var == Tensor2(B, LatentDim, LAMBDA i, j :
                    Scalar(RInt(0), RInt(2 * theta.lv), RInt(0), RInt(0)))
    IN  <<z_mu, z_log_var>>

\* Decoder.forward: z [B, LatentDim] -> pixel probabilities [B, NumPixels],
\* strictly inside (0, 1).
Decoder(phi, z) ==
    Tensor2(Len(z), NumPixels, LAMBDA i, k :
        IF phi = 0 THEN Rat(1, 2)
        ELSE IF (z[i][1][1] + k) % 2 = 1 THEN Rat(3, 4) ELSE Rat(1, 4))

(* --------------------------- distributions ----------------------------- *)
\* the standard-normal noise the generator in state rng hands to rsample
Noise(rng, i, j) == RInt(((rng + i + 2 * j) % 3) - 1)
NextRng(rng) == (rng + 1) % NumSeeds

\* distributions.normal.Normal(loc, scale)
Normal(loc, scale) == [loc |-> loc, scale |-> scale]

\* Normal.rsample(): loc + eps * scale
rsample(N, rng) ==
    Tensor2(Len(N.loc), Len(N.loc[1]), LAMBDA i, j :
        RAdd(N.loc[i][j], RMul(Noise(rng, i, j), N.scale[i][j])))

\* Normal.log_prob(z): -((z - loc)^2) / (2 var) - log(scale) - log(sqrt(2 pi))
log_prob(N, z) ==
    Tensor2(Len(z), Len(z[1]), LAMBDA i, j :
        LET d == RSub(z[i][j], N.loc[i][j])
            var == RMul(N.scale[i][j], N.scale[i][j])
            quad == RDiv(RMul(d, d), RMul(RInt(2), var))
        IN  SSub(SSub(SRat(RNeg(quad)), Log(N.scale[i][j])),
                 Scalar(RInt(0), RInt(0), RInt(0), RInt(1))))

\* F.binary_cross_entropy(pxz, x, reduction='none'):
\* -(x log p + (1 - x) log(1 - p)) per element
binary_cross_entropy(pxz, x) ==
    Tensor2(Len(pxz), Len(pxz[1]), LAMBDA i, k :
        LET p == pxz[i][k]
            t == x.data[i][k]
        IN  SNeg(SAdd(SScale(Log(p), t),
                      SScale(Log(RSub(RInt(1), p)), RSub(RInt(1), t)))))

(* ------------------------------ BasicVAE ------------------------------- *)
\* z_std = torch.exp(z_log_var / 2), elementwise
StdOf(z_log_var) ==
    Tensor2(Len(z_log_var), Len(z_log_var[1]), LAMBDA i, j :
        Exp(SDivR(z_log_var[i][j], RInt(2))))

\* a prior centred at one instead of zero
get_prior_loc_ones(z_mu, z_std) ==
    Normal(Tensor2(Len(z_mu), Len(z_mu[1]), LAMBDA i, j : RInt(1)),
           Tensor2(Len(z_std), Len(z_std[1]), LAMBDA i, j : RInt(1)))

get_prior(z_mu, z_std) ==
    Normal(Tensor2(Len(z_mu), Len(z_mu[1]), LAMBDA i, j : RInt(0)),
           Tensor2(Len(z_std), Len(z_std[1]), LAMBDA i, j : RInt(1)))

get_approx_posterior(z_mu, z_std) == Normal(z_mu, z_std)

forward(phi, z) == Decoder(phi, z)

\* elbo_loss with the KL term summed over every dimension, .sum() for .sum(dim=1)
elbo_loss_kl_total(phi, x, P, Q, rng) ==
    Let(rsample(Q, rng), LAMBDA z :
    Let(forward(phi, z), LAMBDA pxz :
    Let(SumRows(binary_cross_entropy(pxz, x)), LAMBDA recon_loss :
    Let(log_prob(Q, z), LAMBDA log_qz :
    Let(log_prob(P, z), LAMBDA log_pz :
    Let(SSum(SumRows(Tensor2(Len(z), Len(z[1]), LAMBDA i, j : SSub(log_qz[i][j], log_pz[i][j])))),
        LAMBDA kl_div :
    Let(Tensor1(Len(recon_loss), LAMBDA i : SAdd(recon_loss[i], kl_div)), LAMBDA loss :
        [ret |-> <<Mean(loss), Mean(recon_loss), kl_div, pxz>>,
         rng |-> NextRng(rng)])))))))

\* elbo_loss(x, P, Q): the returned tuple (loss, recon_loss, kl_div, pxz) and
\* the generator state left behind by Q.rsample()
elbo_loss(phi, x, P, Q, rng) ==
    Let(rsample(Q, rng), LAMBDA z :
    Let(forward(phi, z), LAMBDA pxz :
    Let(SumRows(binary_cross_entropy(pxz, x)), LAMBDA recon_loss :
    Let(log_prob(Q, z), LAMBDA log_qz :
    Let(log_prob(P, z), LAMBDA log_pz :
    Let(SumRows(Tensor2(Len(z), Len(z[1]), LAMBDA i, j : SSub(log_qz[i][j], log_pz[i][j]))),
        LAMBDA kl_div :
    Let(Tensor1(Len(recon_loss), LAMBDA i : SAdd(recon_loss[i], kl_div[i])), LAMBDA loss :
        [ret |-> <<Mean(loss), Mean(recon_loss), Mean(kl_div), pxz>>,
         rng |-> NextRng(rng)])))))))

\* _run_step flattening the caller's image tensor in place
run_step_view_in_place(theta, phi, batch, rng) ==
    Let(batch[1], LAMBDA x0 :
    Let(Encoder(theta, x0), LAMBDA enc :
    Let(enc[1], LAMBDA z_mu :
    Let(StdOf(enc[2]), LAMBDA z_std :
    Let(View(x0, Size0(x0)), LAMBDA x :
    Let(elbo_loss(phi, x, get_prior(z_mu, z_std), get_approx_posterior(z_mu, z_std), rng),
        LAMBDA e :
        [ret |-> e.ret, batch |-> <<x, batch[2]>>, rng |-> e.rng]))))))

\* _run_step(batch): what it returns, and the caller's batch object and the
\* generator as the call leaves them.  x = x.view(...) rebinds the local name
\* only: the caller's tensor keeps its shape.
run_step(theta, phi, batch, rng) ==
    Let(batch[1], LAMBDA x0 :
    Let(Encoder(theta, x0), LAMBDA enc :
    Let(enc[1], LAMBDA z_mu :
    Let(StdOf(enc[2]), LAMBDA z_std :
    Let(get_prior(z_mu, z_std), LAMBDA P :
    Let(get_approx_posterior(z_mu, z_std), LAMBDA Q :
    Let(View(x0, Size0(x0)), LAMBDA x :
    Let(elbo_loss(phi, x, P, Q, rng), LAMBDA e :
        [ret |-> e.ret, batch |-> batch, rng |-> e.rng]))))))))

training_step(theta, phi, batch, rng) ==
    Let(run_step(theta, phi, batch, rng), LAMBDA s :
    Let(s.ret[1], LAMBDA loss : Let(s.ret[2], LAMBDA recon_loss : Let(s.ret[3], LAMBDA kl_div :
    Let([train_elbo_loss |-> loss,
         train_recon_loss |-> recon_loss,
         train_kl_loss |-> kl_div], LAMBDA tensorboard_logs :
        [ret |-> [loss |-> loss, log |-> tensorboard_logs],
         batch |-> s.batch, rng |-> s.rng])))))

\* validation_step reporting the reconstruction and KL terms under each other's name
validation_step_swapped(theta, phi, batch, rng) ==
    Let(run_step(theta, phi, batch, rng), LAMBDA s :
        [ret |-> [val_loss |-> s.ret[1],
                  val_recon_loss |-> s.ret[3],
                  val_kl_div |-> s.ret[2],
                  pxz |-> s.ret[4]],
         batch |-> s.batch, rng |-> s.rng])

validation_step(theta, phi, batch, rng) ==
    Let(run_step(theta, phi, batch, rng), LAMBDA s :
    Let(s.ret[1], LAMBDA loss : Let(s.ret[2], LAMBDA recon_loss : Let(s.ret[3], LAMBDA kl_div :
    Let(s.ret[4], LAMBDA pxz :
        [ret |-> [val_loss |-> loss,
                  val_recon_loss |-> recon_loss,
                  val_kl_div |-> kl_div,
                  pxz |-> pxz],
         batch |-> s.batch, rng |-> s.rng])))))

\* test_step writing the KL term under the name the epoch log uses
test_step_kl_loss_key(theta, phi, batch, rng) ==
    Let(run_step(theta, phi, batch, rng), LAMBDA s :
        [ret |-> [test_loss |-> s.ret[1],
                  test_recon_loss |-> s.ret[2],
                  test_kl_loss |-> s.ret[3],
                  pxz |-> s.ret[4]],
         batch |-> s.batch, rng |-> s.rng])

test_step(theta, phi, batch, rng) ==
    Let(run_step(theta, phi, batch, rng), LAMBDA s :
    Let(s.ret[1], LAMBDA loss : Let(s.ret[2], LAMBDA recon_loss : Let(s.ret[3], LAMBDA kl_div :
    Let(s.ret[4], LAMBDA pxz :
        [ret |-> [test_loss |-> loss,
                  test_recon_loss |-> recon_loss,
                  test_kl_div |-> kl_div,
                  pxz |-> pxz],
         batch |-> s.batch, rng |-> s.rng])))))

\* x[key] on a per-batch record: a missing key raises KeyError
HasKeys(outputs, keys) == \A i \in 1..Len(outputs) : keys \subseteq DOMAIN outputs[i]

\* torch.stack([x[key] for x in outputs]) : a 1-D tensor (outputs non-empty)
Stack(outputs, key) == Tensor1(Len(outputs), LAMBDA i : outputs[i][key])

\* validation_epoch_end reading the reconstruction average from the KL entries
validation_epoch_end_recon_from_kl(outputs) ==
    IF ~HasKeys(outputs, {"val_loss"}) THEN [error |-> "KeyError"]
    ELSE IF outputs = <<>> THEN [error |-> "RuntimeError"]
    ELSE IF ~HasKeys(outputs, {"val_kl_div"}) THEN [error |-> "KeyError"]
    ELSE [avg_val_loss |-> Mean(Stack(outputs, "val_loss")),
          log |-> [val_elbo_loss |-> Mean(Stack(outputs, "val_loss")),
                   val_recon_loss |-> Mean(Stack(outputs, "val_kl_div")),
                   val_kl_loss |-> Mean(Stack(outputs, "val_kl_div"))]]

\* validation_epoch_end with .sum() for .mean()
validation_epoch_end_sum(outputs) ==
    IF ~HasKeys(outputs, {"val_loss"}) THEN [error |-> "KeyError"]
    ELSE IF outputs = <<>> THEN [error |-> "RuntimeError"]
    ELSE IF ~HasKeys(outputs, {"val_recon_loss", "val_kl_div"}) THEN [error |-> "KeyError"]
    ELSE [avg_val_loss |-> SSum(Stack(outputs, "val_loss")),
          log |-> [val_elbo_loss |-> SSum(Stack(outputs, "val_loss")),
                   val_recon_loss |-> SSum(Stack(outputs, "val_recon_loss")),
                   val_kl_loss |-> SSum(Stack(outputs, "val_kl_div"))]]

\* validation_epoch_end(outputs): torch.stack raises RuntimeError on an empty list
validation_epoch_end(outputs) ==
    IF ~HasKeys(outputs, {"val_loss"}) THEN [error |-> "KeyError"]
    ELSE IF outputs = <<>> THEN [error |-> "RuntimeError"]
    ELSE IF ~HasKeys(outputs, {"val_recon_loss", "val_kl_div"}) THEN [error |-> "KeyError"]
    ELSE
    LET avg_loss == Mean(Stack(outputs, "val_loss"))
        recon_loss == Mean(Stack(outputs, "val_recon_loss"))
        kl_loss == Mean(Stack(outputs, "val_kl_div"))
        tensorboard_logs == [val_elbo_loss |-> avg_loss,
                             val_recon_loss |-> recon_loss,
                             val_kl_loss |-> kl_loss]
    IN  [avg_val_loss |-> avg_loss, log |-> tensorboard_logs]

\* test_epoch_end guarded against an empty epoch, reporting zeros for it
test_epoch_end_empty_zeros(outputs) ==
    IF ~HasKeys(outputs, {"test_loss", "test_recon_loss", "test_kl_div"}) THEN [error |-> "KeyError"]
    ELSE IF outputs = <<>>
         THEN [avg_test_loss |-> SZero,
               log |-> [test_elbo_loss |-> SZero, test_recon_loss |-> SZero, test_kl_loss |-> SZero]]
    ELSE [avg_test_loss |-> Mean(Stack(outputs, "test_loss")),
          log |-> [test_elbo_loss |-> Mean(Stack(outputs, "test_loss")),
                   test_recon_loss |-> Mean(Stack(outputs, "test_recon_loss")),
                   test_kl_loss |-> Mean(Stack(outputs, "test_kl_div"))]]

test_epoch_end(outputs) ==
    IF ~HasKeys(outputs, {"test_loss"}) THEN [error |-> "KeyError"]
    ELSE IF outputs = <<>> THEN [error |-> "RuntimeError"]
    ELSE IF ~HasKeys(outputs, {"test_recon_loss", "test_kl_div"}) THEN [error |-> "KeyError"]
    ELSE
    LET avg_loss == Mean(Stack(outputs, "test_loss"))
        recon_loss == Mean(Stack(outputs, "test_recon_loss"))
        kl_loss == Mean(Stack(outputs, "test_kl_div"))
        tensorboard_logs == [test_elbo_loss |-> avg_loss,
                             test_recon_loss |-> recon_loss,
                             test_kl_loss |-> kl_loss]
    IN  [avg_test_loss |-> avg_loss, log |-> tensorboard_logs]

(* ---------------------------- construction ----------------------------- *)
DefaultHiddenDim == 128
DefaultLatentDim == 32
DefaultInputWidth == 28
DefaultInputHeight == 28
DefaultBatchSize == 32

Attrs == {"hidden_dim", "latent_dim", "input_width", "input_height", "batch_size"}

\* the values an attribute present on hparams may carry
AttrValues(a) ==
    CASE a = "hidden_dim" -> {64}
      [] a = "latent_dim" -> {16}
      [] a = "input_width" -> {14}
      [] a = "input_height" -> {14, 20}
      [] a = "batch_size" -> {8, 16}

\* hparams: None, or a namespace carrying any subset of the attributes
NoHparams == [none |-> TRUE, ns |-> [a \in {} |-> 0]]
HparamsSet ==
    {NoHparams} \cup
    UNION {{[none |-> FALSE, ns |-> f] : f \in [D -> UNION {AttrValues(a) : a \in D}]}
           : D \in SUBSET Attrs}
Hparams == {h \in HparamsSet : \A a \in DOMAIN h.ns : h.ns[a] \in AttrValues(a)}

hasattr(h, a) == ~h.none /\ a \in DOMAIN h.ns

\* BasicVAE.__check_hparams(hparams): the fields it sets on self.  Each of the
\* first four reads is guarded by hasattr of the attribute it reads; the last
\* reads hparams.input_height under hasattr(hparams, 'batch_size'), and reading
\* an absent attribute raises AttributeError
check_hparams(h) ==
    IF hasattr(h, "batch_size") /\ ~hasattr(h, "input_height") THEN [st |-> "AttributeError"]
    ELSE [st |-> "ok",
          hidden_dim |-> IF hasattr(h, "hidden_dim") THEN h.ns["hidden_dim"] ELSE DefaultHiddenDim,
          latent_dim |-> IF hasattr(h, "latent_dim") THEN h.ns["latent_dim"] ELSE DefaultLatentDim,
          input_width |-> IF hasattr(h, "input_width") THEN h.ns["input_width"] ELSE DefaultInputWidth,
          input_height |-> IF hasattr(h, "input_height") THEN h.ns["input_height"] ELSE DefaultInputHeight,
          batch_size |-> IF hasattr(h, "batch_size") THEN h.ns["input_height"] ELSE DefaultBatchSize]

\* init_encoder / init_decoder: the component built with these arguments
init_encoder(hidden_dim, latent_dim, input_width, input_height) ==
    <<hidden_dim, latent_dim, input_width, input_height>>
init_decoder(hidden_dim, latent_dim, input_width, input_height) ==
    <<hidden_dim, latent_dim, input_width, input_height>>

\* BasicVAE.__init__ (basic_vae_module.py and template.py resolve the same five
\* options the same way): the constructed object, or the exception raised
BasicVAE(h) ==
    LET c == check_hparams(h)
    IN  IF c.st # "ok" THEN [st |-> c.st]
        ELSE [st |-> "ok", hparams |-> h,
              hidden_dim |-> c.hidden_dim, latent_dim |-> c.latent_dim,
              input_width |-> c.input_width, input_height |-> c.input_height,
              batch_size |-> c.batch_size,
              encoder |-> init_encoder(c.hidden_dim, c.latent_dim, c.input_width, c.input_height),
              decoder |-> init_decoder(c.hidden_dim, c.latent_dim, c.input_width, c.input_height)]

\* train_dataloader / val_dataloader / test_dataloader: a loader over the split
\* with the module's batch size
train_dataloader(self) == [st |-> "ok", split |-> "train", batch_size |-> self.batch_size]
val_dataloader(self) == [st |-> "ok", split |-> "val", batch_size |-> self.batch_size]
test_dataloader(self) == [st |-> "ok", split |-> "test", batch_size |-> self.batch_size]

(* -------------------------------- data --------------------------------- *)
\* a batch (images, labels): n images of shape [1, 1, NumPixels] stored row by row
Batch(n, v) ==
    <<[shape |-> <<n, 1, 1, NumPixels>>,
       data |-> Tensor2(n, NumPixels, LAMBDA i, k :
                    RInt(IF v = 0 THEN 0 ELSE (i + k) % 2))],
      Tensor1(n, LAMBDA i : (i + v) % 10)>>
Batches == {Batch(n, v) : n \in 1..MaxBatch, v \in 0..1}

RECURSIVE SeqsUpTo(_, _)
SeqsUpTo(S, n) ==
    IF n = 0 THEN {<<>>}
    ELSE LET shorter == SeqsUpTo(S, n - 1)
         IN  shorter \cup {Append(q, e) : q \in {r \in shorter : Len(r) = n - 1}, e \in S}

Modes == {"train", "val", "test"}

\* what each of the three steps does on every input of the model, computed once
StepInputs == EncoderParams \X DecoderParams \X Batches \X (0..(NumSeeds - 1))
StepTable ==
    LET f == [a \in StepInputs |->
                [train |-> training_step(a[1], a[2], a[3], a[4]),
                 val |-> validation_step(a[1], a[2], a[3], a[4]),
                 test |-> test_step(a[1], a[2], a[3], a[4])]]
    IN  f @@ <<>>
Step(mode, t, p, b, r) == StepTable[<<t, p, b, r>>][mode]
NoSlot == [st |-> "none"]
NoOut == [m \in Modes |-> NoSlot]

(* -------------------------------- state -------------------------------- *)
VARIABLES
    hparams,      \* the hparams object handed to BasicVAE
    module,       \* the BasicVAE object: unbuilt, built, or the exception raised
    loaders,      \* per split, the loader the module created
    encoder,      \* encoder parameters
    decoder,      \* decoder parameters
    generator,    \* state of the global noise generator
    current_batch, \* the caller's current batch (images, labels)
    out,          \* per mode, the last step's return value and the noise state it drew from
    op,           \* the operation that ran last
    dataset,      \* the batches a loader yields in one pass
    phase,        \* the evaluation loop's position
    idx,          \* batches consumed in the current pass
    val_outputs,  \* the records validation_step returned in this pass
    test_outputs, \* the records test_step returned in this pass
    epoch_out     \* what validation_epoch_end / test_epoch_end returned

cfgVars == <<hparams, module, loaders>>
stepVars == <<encoder, decoder, generator, current_batch, out, op>>
epochVars == <<dataset, phase, idx, val_outputs, test_outputs, epoch_out>>
vars == <<hparams, module, loaders, encoder, decoder, generator, current_batch, out, op,
          dataset, phase, idx, val_outputs, test_outputs, epoch_out>>

NoLoaders == [k \in Modes |-> NoSlot]
NoEpochOut == [val |-> NoSlot, test |-> NoSlot]

(* ------------------- construction and the data loaders ----------------- *)
InitConfig ==
    /\ hparams \in Hparams
    /\ module = [st |-> "unbuilt"]
    /\ loaders = NoLoaders
    /\ encoder = [w |-> 0, lv |-> 0] /\ decoder = 0 /\ generator = 0
    /\ current_batch = Batch(1, 0) /\ out = NoOut /\ op = "init"
    /\ dataset = <<>> /\ phase = "idle" /\ idx = 0
    /\ val_outputs = <<>> /\ test_outputs = <<>> /\ epoch_out = NoEpochOut

\* vae = BasicVAE(hparams)
Construct ==
    /\ module.st = "unbuilt"
    /\ module' = BasicVAE(hparams)
    /\ UNCHANGED <<hparams, loaders>>
    /\ UNCHANGED stepVars /\ UNCHANGED epochVars

TrainDataloader ==
    /\ module.st = "ok"
    /\ loaders' = [loaders EXCEPT !["train"] = train_dataloader(module)]
    /\ UNCHANGED <<hparams, module>>
    /\ UNCHANGED stepVars /\ UNCHANGED epochVars

ValDataloader ==
    /\ module.st = "ok"
    /\ loaders' = [loaders EXCEPT !["val"] = val_dataloader(module)]
    /\ UNCHANGED <<hparams, module>>
    /\ UNCHANGED stepVars /\ UNCHANGED epochVars

TestDataloader ==
    /\ module.st = "ok"
    /\ loaders' = [loaders EXCEPT !["test"] = test_dataloader(module)]
    /\ UNCHANGED <<hparams, module>>
    /\ UNCHANGED stepVars /\ UNCHANGED epochVars

NextConfig == Construct \/ TrainDataloader \/ ValDataloader \/ TestDataloader

SpecConfig == InitConfig /\ [][NextConfig]_vars

(* ------------------------- the steps, called freely -------------------- *)
FullHparams ==
    [none |-> FALSE,
     ns |-> [a \in Attrs |-> CHOOSE v \in AttrValues(a) : \A u \in AttrValues(a) : v <= u]]

Init ==
    /\ hparams \in {NoHparams, FullHparams}
    /\ module = BasicVAE(hparams)
    /\ loaders = NoLoaders
    /\ encoder \in EncoderParams /\ decoder \in DecoderParams
    /\ generator = 0
    /\ current_batch \in Batches
    /\ out = NoOut /\ op = "init"
    /\ dataset = <<>> /\ phase = "idle" /\ idx = 0
    /\ val_outputs = <<>> /\ test_outputs = <<>> /\ epoch_out = NoEpochOut

\* the loader hands the caller its next batch
NewBatch ==
    /\ \E b \in Batches : b # current_batch /\ current_batch' = b
    /\ out' = NoOut /\ op' = "other"
    /\ UNCHANGED <<encoder, decoder, generator>>
    /\ UNCHANGED cfgVars /\ UNCHANGED epochVars

\* torch.manual_seed(s)
Seed ==
    /\ \E s \in 0..(NumSeeds - 1) : s # generator /\ generator' = s
    /\ op' = "other"
    /\ UNCHANGED <<encoder, decoder, current_batch, out>>
    /\ UNCHANGED cfgVars /\ UNCHANGED epochVars

\* the optimizer updates the encoder and decoder parameters between steps
OptimizerStep ==
    /\ \E t \in EncoderParams, p \in DecoderParams :
          /\ <<t, p>> # <<encoder, decoder>>
          /\ encoder' = t /\ decoder' = p
    /\ out' = NoOut /\ op' = "other"
    /\ UNCHANGED <<generator, current_batch>>
    /\ UNCHANGED cfgVars /\ UNCHANGED epochVars

TrainingStep ==
    \E r \in {Step("train", encoder, decoder, current_batch, generator)} :
        /\ out' = [out EXCEPT !["train"] = [st |-> "done", ret |-> r.ret, rng |-> generator]]
        /\ current_batch' = r.batch /\ generator' = r.rng
        /\ op' = "training_step"
        /\ UNCHANGED <<encoder, decoder>>
        /\ UNCHANGED cfgVars /\ UNCHANGED epochVars

ValidationStep ==
    \E r \in {Step("val", encoder, decoder, current_batch, generator)} :
        /\ out' = [out EXCEPT !["val"] = [st |-> "done", ret |-> r.ret, rng |-> generator]]
        /\ current_batch' = r.batch /\ generator' = r.rng
        /\ op' = "validation_step"
        /\ UNCHANGED <<encoder, decoder>>
        /\ UNCHANGED cfgVars /\ UNCHANGED epochVars

TestStep ==
    \E r \in {Step("test", encoder, decoder, current_batch, generator)} :
        /\ out' = [out EXCEPT !["test"] = [st |-> "done", ret |-> r.ret, rng |-> generator]]
        /\ current_batch' = r.batch /\ generator' = r.rng
        /\ op' = "test_step"
        /\ UNCHANGED <<encoder, decoder>>
        /\ UNCHANGED cfgVars /\ UNCHANGED epochVars

Next == NewBatch \/ Seed \/ OptimizerStep \/ TrainingStep \/ ValidationStep \/ TestStep

Spec == Init /\ [][Next]_vars

(* --------------- one pass of each loop over a loader's batches --------- *)
InitEpoch ==
    /\ hparams = NoHparams
    /\ module = BasicVAE(hparams)
    /\ loaders = NoLoaders
    /\ encoder \in EncoderParams /\ decoder \in DecoderParams
    /\ generator \in 0..(NumSeeds - 1)
    /\ dataset \in SeqsUpTo(Batches, MaxOutputs)
    /\ current_batch = Batch(1, 0)
    /\ out = NoOut /\ op = "init"
    /\ phase = "train" /\ idx = 0
    /\ val_outputs = <<>> /\ test_outputs = <<>> /\ epoch_out = NoEpochOut

\* the training loop calls training_step on the loader's next batch
FitTrainingStep ==
    /\ phase = "train" /\ idx < Len(dataset)
    /\ \E r \in {Step("train", encoder, decoder, dataset[idx + 1], generator)} :
           /\ out' = [out EXCEPT !["train"] = [st |-> "done", ret |-> r.ret, rng |-> generator]]
           /\ current_batch' = r.batch /\ generator' = r.rng
    /\ idx' = idx + 1 /\ op' = "training_step"
    /\ UNCHANGED <<encoder, decoder, dataset, phase, val_outputs, test_outputs, epoch_out>>
    /\ UNCHANGED cfgVars

TrainingEpochDone ==
    /\ phase = "train" /\ idx = Len(dataset)
    /\ phase' = "val" /\ idx' = 0 /\ op' = "other"
    /\ UNCHANGED <<encoder, decoder, generator, current_batch, out, dataset, val_outputs, test_outputs, epoch_out>>
    /\ UNCHANGED cfgVars

\* the validation loop collects what validation_step returns
EvalValidationStep ==
    /\ phase = "val" /\ idx < Len(dataset)
    /\ \E r \in {Step("val", encoder, decoder, dataset[idx + 1], generator)} :
           /\ val_outputs' = Append(val_outputs, r.ret)
           /\ out' = [out EXCEPT !["val"] = [st |-> "done", ret |-> r.ret, rng |-> generator]]
           /\ current_batch' = r.batch /\ generator' = r.rng
    /\ idx' = idx + 1 /\ op' = "validation_step"
    /\ UNCHANGED <<encoder, decoder, dataset, phase, test_outputs, epoch_out>>
    /\ UNCHANGED cfgVars

ValidationEpochEnd ==
    /\ phase = "val" /\ idx = Len(dataset)
    /\ epoch_out' = [epoch_out EXCEPT !.val = [st |-> "done", ret |-> validation_epoch_end(val_outputs)]]
    /\ phase' = "test" /\ idx' = 0 /\ op' = "validation_epoch_end"
    /\ UNCHANGED <<encoder, decoder, generator, current_batch, out, dataset, val_outputs, test_outputs>>
    /\ UNCHANGED cfgVars

EvalTestStep ==
    /\ phase = "test" /\ idx < Len(dataset)
    /\ \E r \in {Step("test", encoder, decoder, dataset[idx + 1], generator)} :
           /\ test_outputs' = Append(test_outputs, r.ret)
           /\ out' = [out EXCEPT !["test"] = [st |-> "done", ret |-> r.ret, rng |-> generator]]
           /\ current_batch' = r.batch /\ generator' = r.rng
    /\ idx' = idx + 1 /\ op' = "test_step"
    /\ UNCHANGED <<encoder, decoder, dataset, phase, val_outputs, epoch_out>>
    /\ UNCHANGED cfgVars

TestEpochEnd ==
    /\ phase = "test" /\ idx = Len(dataset)
    /\ epoch_out' = [epoch_out EXCEPT !.test = [st |-> "done", ret |-> test_epoch_end(test_outputs)]]
    /\ phase' = "done" /\ op' = "test_epoch_end"
    /\ UNCHANGED <<encoder, decoder, generator, current_batch, out, dataset, idx, val_outputs, test_outputs>>
    /\ UNCHANGED cfgVars

NextEpoch ==
    \/ FitTrainingStep \/ TrainingEpochDone
    \/ EvalValidationStep \/ ValidationEpochEnd
    \/ EvalTestStep \/ TestEpochEnd

SpecEpoch == InitEpoch /\ [][NextEpoch]_vars

(* ------------------------------ properties ----------------------------- *)
StepOps == {"training_step", "validation_step", "test_step"}

\* the (loss, reconstruction loss, KL) a step's return value r reports in mode m
Values(m, r) ==
    CASE m = "train" -> <<r.loss, r.log.train_recon_loss, r.log.train_kl_loss>>
      [] m = "val" -> <<r.val_loss, r.val_recon_loss, r.val_kl_div>>
      [] m = "test" -> <<r.test_loss, r.test_recon_loss, r.test_kl_div>>

\* s[1] + ... + s[n]
RECURSIVE SumFirst(_, _)
SumFirst(s, n) == IF n = 0 THEN SZero ELSE SAdd(SumFirst(s, n - 1), s[n])

\* a is the arithmetic mean of the non-empty sequence s: Len(s) * a = s[1] + ... + s[Len(s)]
IsMeanOf(a, s) == SScale(a, RInt(Len(s))) = SumFirst(s, Len(s))

\* the column of entries named key in a sequence of records
Column(records, key) == Tensor1(Len(records), LAMBDA i : records[i][key])

\* n copies of the record r
Copies(r, n) == Tensor1(n, LAMBDA i : r)

\* the sequence s reordered by the permutation f of its indices
Reordered(s, f) == Tensor1(Len(s), LAMBDA i : s[f[i]])

\* the per-sample terms of the ELBO on one step input, written out from their
\* definitions: for sample i the cross-entropy summed over the pixels and
\* log q(z) - log p(z) summed over the latent dimensions; then their batch means
PerSample(t, p, b, r) ==
    Let(b[1], LAMBDA x0 :
    Let(Encoder(t, x0), LAMBDA enc :
    Let(StdOf(enc[2]), LAMBDA sd :
    Let(rsample(Normal(enc[1], sd), r), LAMBDA z :
    Let(binary_cross_entropy(forward(p, z), View(x0, Size0(x0))), LAMBDA ce :
    Let(log_prob(Normal(enc[1], sd), z), LAMBDA lq :
    Let(log_prob(get_prior(enc[1], sd), z), LAMBDA lp :
        [recon |-> Tensor1(Size0(x0), LAMBDA i : SumFirst(ce[i], Len(ce[i]))),
         kl |-> Tensor1(Size0(x0), LAMBDA i :
                    SumFirst(Tensor1(Len(z[i]), LAMBDA j : SSub(lq[i][j], lp[i][j])),
                             Len(z[i])))])))))))

PerSampleTable ==
    LET f == [a \in StepInputs |-> PerSample(a[1], a[2], a[3], a[4])]
    IN  f @@ <<>>

\* the encoder returns mean 0 and log-variance 0 for every element of the batch
PosteriorIsPrior ==
    LET e == Encoder(encoder, current_batch[1])
    IN  \A i \in 1..Len(e[1]) : \A j \in 1..Len(e[1][i]) :
            e[1][i][j] = RInt(0) /\ e[2][i][j] = SZero

\* C1: constructing BasicVAE completes for every set of attributes present on
\* hparams (None included), and every absent attribute takes its default
ConstructionNeverFails ==
    module.st # "unbuilt" =>
        /\ module.st = "ok"
        /\ ~hasattr(hparams, "hidden_dim") => module.hidden_dim = DefaultHiddenDim
        /\ ~hasattr(hparams, "latent_dim") => module.latent_dim = DefaultLatentDim
        /\ ~hasattr(hparams, "input_width") => module.input_width = DefaultInputWidth
        /\ ~hasattr(hparams, "input_height") => module.input_height = DefaultInputHeight
        /\ ~hasattr(hparams, "batch_size") => module.batch_size = DefaultBatchSize

\* C2: when hparams carries batch_size = b, every loader the module creates
\* (train, validation, test) has batch size b
LoadersUseConfiguredBatchSize ==
    \A k \in Modes :
        (loaders[k].st = "ok" /\ hasattr(hparams, "batch_size")) =>
            loaders[k].batch_size = hparams.ns["batch_size"]

\* C3: the three scalars a step reports from elbo_loss are the batch means of
\* the per-sample reconstruction loss, of the per-sample KL term and of their
\* per-sample sum, and the reported loss is the reported reconstruction loss
\* plus the reported KL term
ElboLossIsBatchMean ==
    \A m \in Modes :
        out[m].st = "done" =>
            LET v == Values(m, out[m].ret)
                ps == PerSampleTable[<<encoder, decoder, current_batch, out[m].rng>>]
                n == Len(ps.recon)
            IN  /\ n = Size0(current_batch[1])
                /\ IsMeanOf(v[2], ps.recon)
                /\ IsMeanOf(v[3], ps.kl)
                /\ IsMeanOf(v[1], Tensor1(n, LAMBDA i : SAdd(ps.recon[i], ps.kl[i])))
                /\ v[1] = SAdd(v[2], v[3])

ElboLossIsBatchMeanWitness ==
    /\ out["val"].st = "done"
    /\ Size0(current_batch[1]) = MaxBatch
    /\ LET ps == PerSampleTable[<<encoder, decoder, current_batch, out["val"].rng>>]
       IN  ps.recon[1] # ps.recon[2] /\ ps.kl[1] # ps.kl[2] /\ ps.kl[1] # SZero

\* C4: on a non-empty pass, each of the three epoch-end metrics is the
\* arithmetic mean over the batches of that metric alone, in whatever order
\* the per-batch records come (validation and test)
EpochEndIsMean ==
    /\ (epoch_out.val.st = "done" /\ val_outputs # <<>>) =>
           LET e == epoch_out.val.ret
           IN  /\ DOMAIN e = {"avg_val_loss", "log"}
               /\ IsMeanOf(e.avg_val_loss, Column(val_outputs, "val_loss"))
               /\ IsMeanOf(e.log.val_elbo_loss, Column(val_outputs, "val_loss"))
               /\ IsMeanOf(e.log.val_recon_loss, Column(val_outputs, "val_recon_loss"))
               /\ IsMeanOf(e.log.val_kl_loss, Column(val_outputs, "val_kl_div"))
               /\ \A f \in Permutations(1..Len(val_outputs)) :
                      validation_epoch_end(Reordered(val_outputs, f)) = e
    /\ (epoch_out.test.st = "done" /\ test_outputs # <<>>) =>
           LET e == epoch_out.test.ret
           IN  /\ DOMAIN e = {"avg_test_loss", "log"}
               /\ IsMeanOf(e.avg_test_loss, Column(test_outputs, "test_loss"))
               /\ IsMeanOf(e.log.test_elbo_loss, Column(test_outputs, "test_loss"))
               /\ IsMeanOf(e.log.test_recon_loss, Column(test_outputs, "test_recon_loss"))
               /\ IsMeanOf(e.log.test_kl_loss, Column(test_outputs, "test_kl_div"))
               /\ \A f \in Permutations(1..Len(test_outputs)) :
                      test_epoch_end(Reordered(test_outputs, f)) = e

EpochEndIsMeanWitness ==
    /\ epoch_out.val.st = "done" /\ epoch_out.test.st = "done"
    /\ Len(val_outputs) = MaxOutputs /\ Len(test_outputs) = MaxOutputs
    /\ val_outputs[1].val_recon_loss # val_outputs[2].val_recon_loss
    /\ val_outputs[1].val_kl_div # val_outputs[2].val_kl_div
    /\ test_outputs[1].test_loss # test_outputs[2].test_loss

\* C5: validation_epoch_end and test_epoch_end of an empty sequence of records
\* raise an error and return no metrics
EmptyEpochFails ==
    /\ (epoch_out.val.st = "done" /\ val_outputs = <<>>) => DOMAIN epoch_out.val.ret = {"error"}
    /\ (epoch_out.test.st = "done" /\ test_outputs = <<>>) => DOMAIN epoch_out.test.ret = {"error"}

EmptyEpochFailsWitness ==
    /\ epoch_out.val.st = "done" /\ val_outputs = <<>>
    /\ epoch_out.test.st = "done" /\ test_outputs = <<>>
    /\ epoch_out.val.ret.error = "RuntimeError" /\ epoch_out.test.ret.error = "RuntimeError"

\* C6: each step and each epoch end returns exactly the named entries of the
\* interface, and the epoch ends find every key they read in the records the
\* matching step wrote
OutputsCarryPromisedKeys ==
    /\ out["train"].st = "done" =>
           /\ DOMAIN out["train"].ret = {"loss", "log"}
           /\ DOMAIN out["train"].ret.log = {"train_elbo_loss", "train_recon_loss", "train_kl_loss"}
           /\ out["train"].ret.log.train_elbo_loss = out["train"].ret.loss
    /\ \A i \in 1..Len(val_outputs) :
           /\ DOMAIN val_outputs[i] = {"val_loss", "val_recon_loss", "val_kl_div", "pxz"}
           /\ Len(val_outputs[i].pxz) = Size0(dataset[i][1])
    /\ \A i \in 1..Len(test_outputs) :
           /\ DOMAIN test_outputs[i] = {"test_loss", "test_recon_loss", "test_kl_div", "pxz"}
           /\ Len(test_outputs[i].pxz) = Size0(dataset[i][1])
    /\ epoch_out.val.st = "done" =>
           /\ epoch_out.val.ret # [error |-> "KeyError"]
           /\ val_outputs # <<>> =>
                  /\ DOMAIN epoch_out.val.ret = {"avg_val_loss", "log"}
                  /\ DOMAIN epoch_out.val.ret.log = {"val_elbo_loss", "val_recon_loss", "val_kl_loss"}
    /\ epoch_out.test.st = "done" =>
           /\ epoch_out.test.ret # [error |-> "KeyError"]
           /\ test_outputs # <<>> =>
                  /\ DOMAIN epoch_out.test.ret = {"avg_test_loss", "log"}
                  /\ DOMAIN epoch_out.test.ret.log = {"test_elbo_loss", "test_recon_loss", "test_kl_loss"}

OutputsCarryPromisedKeysWitness ==
    /\ out["train"].st = "done"
    /\ Len(val_outputs) = MaxOutputs /\ epoch_out.val.st = "done"
    /\ Len(test_outputs) = MaxOutputs /\ epoch_out.test.st = "done"

\* C7: the epoch end of n >= 1 copies of one per-batch record returns that
\* record's loss, reconstruction loss and KL values, whatever n is
IdenticalRecordsAverageToThemselves ==
    /\ \A i \in 1..Len(val_outputs) : \A n \in 1..(MaxOutputs + 1) :
           LET r == val_outputs[i]
               e == validation_epoch_end(Copies(r, n))
           IN  /\ DOMAIN e = {"avg_val_loss", "log"}
               /\ e.avg_val_loss = r.val_loss
               /\ e.log.val_elbo_loss = r.val_loss
               /\ e.log.val_recon_loss = r.val_recon_loss
               /\ e.log.val_kl_loss = r.val_kl_div
    /\ \A i \in 1..Len(test_outputs) : \A n \in 1..(MaxOutputs + 1) :
           LET r == test_outputs[i]
               e == test_epoch_end(Copies(r, n))
           IN  /\ DOMAIN e = {"avg_test_loss", "log"}
               /\ e.avg_test_loss = r.test_loss
               /\ e.log.test_elbo_loss = r.test_loss
               /\ e.log.test_recon_loss = r.test_recon_loss
               /\ e.log.test_kl_loss = r.test_kl_div
    /\ (epoch_out.val.st = "done" /\ val_outputs # <<>>
            /\ \A i \in 1..Len(val_outputs) : val_outputs[i] = val_outputs[1]) =>
           /\ DOMAIN epoch_out.val.ret = {"avg_val_loss", "log"}
           /\ epoch_out.val.ret.log = [val_elbo_loss |-> val_outputs[1].val_loss,
                                       val_recon_loss |-> val_outputs[1].val_recon_loss,
                                       val_kl_loss |-> val_outputs[1].val_kl_div]
    /\ (epoch_out.test.st = "done" /\ test_outputs # <<>>
            /\ \A i \in 1..Len(test_outputs) : test_outputs[i] = test_outputs[1]) =>
           /\ DOMAIN epoch_out.test.ret = {"avg_test_loss", "log"}
           /\ epoch_out.test.ret.log = [test_elbo_loss |-> test_outputs[1].test_loss,
                                        test_recon_loss |-> test_outputs[1].test_recon_loss,
                                        test_kl_loss |-> test_outputs[1].test_kl_div]

IdenticalRecordsWitness ==
    /\ epoch_out.val.st = "done"
    /\ Len(val_outputs) = MaxOutputs
    /\ \A i \in 1..Len(val_outputs) : val_outputs[i] = val_outputs[1]
    /\ val_outputs[1].val_kl_div # SZero

\* C8: when the encoder returns mean 0 and log-variance 0, the KL term a step
\* reports is 0 and the loss it reports is the reconstruction loss
KlZeroWhenPosteriorIsPrior ==
    \A m \in Modes :
        (out[m].st = "done" /\ PosteriorIsPrior) =>
            LET v == Values(m, out[m].ret)
            IN  v[3] = SZero /\ v[1] = v[2]

KlZeroWitness ==
    /\ PosteriorIsPrior
    /\ Size0(current_batch[1]) = MaxBatch
    /\ \A m \in Modes : out[m].st = "done"
    /\ out["train"].rng # out["val"].rng

\* C9: a step leaves the caller's batch (the image tensor's shape included),
\* the encoder and decoder parameters and the module's configuration as they were
StepLeavesInputsUnchanged ==
    [][op' \in StepOps =>
          /\ current_batch' = current_batch
          /\ encoder' = encoder /\ decoder' = decoder
          /\ module' = module /\ hparams' = hparams]_vars

StepLeavesInputsWitness ==
    /\ op \in StepOps
    /\ \A m \in Modes : out[m].st = "done"
    /\ current_batch[1].shape = <<MaxBatch, 1, 1, NumPixels>>

\* C10: on the same batch, parameters and noise draw, training_step,
\* validation_step and test_step report the same loss, reconstruction loss and
\* KL values, and so does a second run of any one of them
ModesShareOneStep ==
    [][\A m \in Modes :
          out'[m].st = "done" =>
              /\ m = "train" => out'[m].ret.log.train_elbo_loss = out'[m].ret.loss
              /\ \A m2 \in Modes :
                     (out[m2].st = "done" /\ out[m2].rng = out'[m].rng) =>
                         Values(m, out'[m].ret) = Values(m2, out[m2].ret)]_vars

ModesShareOneStepWitness ==
    /\ \A m \in Modes : out[m].st = "done" /\ out[m].rng = out["train"].rng
    /\ Values("train", out["train"].ret)[3] # SZero
    /\ Values("val", out["val"].ret)[2] # Values("val", out["val"].ret)[3]

====
